---------------------------- MODULE Spec2Model ----------------------------
(***************************************************************************)
(* A model of the 6502 CPU core of jsilll/nes: the CPU struct, its memory  *)
(* primitives, the addressing-mode resolver, the instruction handlers and  *)
(* the decode/execute loop of CPU::run, as a state machine driven by a     *)
(* client that calls new, load, reset, run and load_and_run.               *)
(***************************************************************************)
EXTENDS Integers, Sequences, FiniteSets, TLC

VARIABLES
    cpu,      \* the CPU struct: a, x, y, flags, counter, memory (+ panicked)
    state,    \* position of the client: Idle, Running, Halted, Failed, Panicked
    act,      \* the last operation performed (history)
    loads,    \* number of load / load_and_run calls made so far
    calls,    \* number of reset / run calls made so far
    cpu2,     \* a second CPU instance (used by SpecPair)
    state2,   \* position of the second instance
    phase2    \* which of load, reset, run the second instance has made

vars == <<cpu, state, act, loads, calls, cpu2, state2, phase2>>

---------------------------------------------------------------------------
(* Bounds of the model                                                     *)

MaxLoads == 2
MaxCalls == 2

---------------------------------------------------------------------------
(* Flags (cpu/mod.rs) and the sizes of the machine                         *)

CARRY        == \b00000001
ZERO         == \b00000010
NO_INTERRUPT == \b00000100
DECIMAL      == \b00001000
BREAK1       == \b00010000
BREAK2       == \b00100000
OVERFLOW     == \b01000000
NEGATIVE     == \b10000000

\* Flags::from_bits_truncate(0b100100), the power-up pattern
POWER_UP == \b100100

\* memory: [u8; 0xFFFF]: the valid indices are 0 .. 0xFFFE
MEMORY_LEN == \hFFFF

\* the origin of the program image and the address of the reset vector
PRG_ORIGIN   == \h8000
RESET_VECTOR == \hFFFC

\* u8 and u16 truncation (`as u8`, wrapping_add on u8 / u16)
U8(n)  == n % 256
U16(n) == n % 65536

---------------------------------------------------------------------------
(* Bit operations on bytes, computed bit by bit                            *)

RECURSIVE BitAndN(_, _, _)
BitAndN(p, q, n) ==
    IF n = 0 THEN 0
    ELSE (p % 2) * (q % 2) + 2 * BitAndN(p \div 2, q \div 2, n - 1)

RECURSIVE BitXorN(_, _, _)
BitXorN(p, q, n) ==
    IF n = 0 THEN 0
    ELSE ((p + q) % 2) + 2 * BitXorN(p \div 2, q \div 2, n - 1)

BitAnd(p, q) == BitAndN(p, q, 8)
BitXor(p, q) == BitXorN(p, q, 8)

\* bitflags: contains / insert / remove / set on a one-bit mask (the bit of
\* the mask is bit (f / mask) mod 2 of f)
contains(f, mask) == (f \div mask) % 2 = 1
insert(f, mask)   == IF contains(f, mask) THEN f ELSE f + mask
remove(f, mask)   == IF contains(f, mask) THEN f - mask ELSE f
set(f, mask, b)   == IF b THEN insert(f, mask) ELSE remove(f, mask)

---------------------------------------------------------------------------
(* Memory.  The array is zero-filled by new(); the model keeps the cells   *)
(* that hold a non-zero byte (a function from their addresses), so that    *)
(* two equal memories are equal values.                                    *)

ZeroMemory == [k \in {} |-> 0]

Cell(m, addr) == IF addr \in DOMAIN m THEN m[addr] ELSE 0

Store(m, addr, data) ==
    IF data = 0
    THEN [k \in DOMAIN m \ {addr} |-> m[k]]
    ELSE [k \in DOMAIN m \cup {addr} |-> IF k = addr THEN data ELSE m[k]]

\* memory[addr as usize]: an index 0xFFFF is out of bounds and panics
InBounds(addr) == addr < MEMORY_LEN

Panicked(c) == [c EXCEPT !.panicked = TRUE]

\* mem_read: the byte, and whether the index panicked
mem_read(c, addr) ==
    [panicked |-> ~InBounds(addr), val |-> Cell(c.memory, addr)]

\* mem_write
mem_write(c, addr, data) ==
    IF InBounds(addr)
    THEN [c EXCEPT !.memory = Store(c.memory, addr, data)]
    ELSE Panicked(c)

\* mem_read_u16: low byte at addr, high byte at addr + 1.  addr + 1 can
\* overflow only when addr = 0xFFFF, where the low read has already panicked.
mem_read_u16(c, addr) ==
    LET low  == mem_read(c, addr)
        high == mem_read(c, U16(addr + 1))
    IN  [panicked |-> low.panicked \/ high.panicked,
         val      |-> high.val * 256 + low.val]

\* mem_write_u16
mem_write_u16(c, addr, data) ==
    LET high == data \div 256
        low  == data % 256
        c1   == mem_write(c, addr, low)
    IN  IF c1.panicked THEN c1 ELSE mem_write(c1, U16(addr + 1), high)

\* mem_read_incr: reads the byte at addr and advances the program counter
\* by one (wrapping)
mem_read_incr(c, addr) ==
    LET r == mem_read(c, addr)
    IN  [panicked |-> r.panicked,
         val      |-> r.val,
         cpu      |-> [c EXCEPT !.counter = U16(c.counter + 1)]]

---------------------------------------------------------------------------
(* The addressing-mode resolver (cpu/memory.rs, operand_address)           *)

operand_address(c, mode) ==
    CASE mode = "Immediate" -> [panicked |-> FALSE, val |-> c.counter]
      [] mode = "ZeroPage"  -> mem_read(c, c.counter)
      [] mode = "Absolute"  -> mem_read_u16(c, c.counter)
      [] mode = "ZeroPageX" ->
            LET pos == mem_read(c, c.counter)
            IN  [panicked |-> pos.panicked, val |-> U8(pos.val + c.x)]
      [] mode = "ZeroPageY" ->
            LET pos == mem_read(c, c.counter)
            IN  [panicked |-> pos.panicked, val |-> U8(pos.val + c.y)]
      [] mode = "AbsoluteX" ->
            LET base == mem_read_u16(c, c.counter)
            IN  [panicked |-> base.panicked, val |-> U16(base.val + c.x)]
      [] mode = "AbsoluteY" ->
            LET base == mem_read_u16(c, c.counter)
            IN  [panicked |-> base.panicked, val |-> U16(base.val + c.y)]
      [] mode = "IndirectX" ->
            LET base == mem_read(c, c.counter)
                addr == U8(base.val + c.x)
                lo   == mem_read(c, addr)
                hi   == mem_read(c, U8(addr + 1))
            IN  [panicked |-> base.panicked, val |-> hi.val * 256 + lo.val]
      [] mode = "IndirectY" ->
            LET base == mem_read(c, c.counter)
                lo   == mem_read(c, base.val)
                hi   == mem_read(c, U8(base.val + 1))
                deref_base == hi.val * 256 + lo.val
            IN  [panicked |-> base.panicked, val |-> U16(deref_base + c.y)]

\* get_oper_addr: the resolver as the handlers call it
get_oper_addr(c, mode) == operand_address(c, mode)

---------------------------------------------------------------------------
(* Flag and arithmetic helpers (cpu/operations.rs)                         *)

\* the updater that sets the two flags and never clears them
update_flags_sticky(c, val) ==
    LET f1 == IF val = 0 THEN insert(c.flags, ZERO) ELSE c.flags
        f2 == IF BitAnd(val, \b10000000) # 0 THEN insert(f1, NEGATIVE) ELSE f1
    IN  [c EXCEPT !.flags = f2]

update_flags_zero_neg(c, val) ==
    LET f1 == set(c.flags, ZERO, val = 0)
        f2 == set(f1, NEGATIVE, BitAnd(val, \b10000000) # 0)
    IN  [c EXCEPT !.flags = f2]

set_a(c, value) ==
    update_flags_zero_neg([c EXCEPT !.a = value], value)

\* the addition without the incoming carry
add_to_a_no_carry_in(c, data) ==
    LET sum    == c.a + data
        f1     == set(c.flags, CARRY, sum > \hFF)
        result == U8(sum)
        f2     == set(f1, OVERFLOW,
                      BitAnd(BitAnd(BitXor(data, result), BitXor(result, c.a)),
                             \h80) # 0)
    IN  set_a([c EXCEPT !.flags = f2], result)

add_to_a(c, data) ==
    LET sum    == c.a + data + (IF contains(c.flags, CARRY) THEN 1 ELSE 0)
        f1     == set(c.flags, CARRY, sum > \hFF)
        result == U8(sum)
        f2     == set(f1, OVERFLOW,
                      BitAnd(BitAnd(BitXor(data, result), BitXor(result, c.a)),
                             \h80) # 0)
    IN  set_a([c EXCEPT !.flags = f2], result)

---------------------------------------------------------------------------
(* Instruction handlers (cpu/operations.rs).  A handler that indexes the   *)
(* memory out of bounds panics: the CPU is left marked panicked.           *)

\* ADC - Add with Carry
adc(c, mode) ==
    LET addr  == get_oper_addr(c, mode)
        param == mem_read_incr(c, addr.val)
    IN  IF addr.panicked \/ param.panicked THEN Panicked(c)
        ELSE add_to_a(param.cpu, param.val)

\* AND - Logical AND
and(c, mode) ==
    LET addr  == get_oper_addr(c, mode)
        param == mem_read_incr(c, addr.val)
    IN  IF addr.panicked \/ param.panicked THEN Panicked(c)
        ELSE set_a(param.cpu, BitAnd(param.cpu.a, param.val))

\* ASL on the accumulator with the old Carry shifted into bit 0 (a rotate)
asl_on_accumulator_rotating(c) ==
    LET param == c.a
        carry == IF contains(c.flags, CARRY) THEN 1 ELSE 0
        c1    == [c EXCEPT !.flags =
                      set(c.flags, CARRY, BitAnd(param, \b10000000) # 0)]
    IN  set_a(c1, U8(param * 2 + carry))

\* ASL on the accumulator
asl_on_accumulator(c) ==
    LET param == c.a
        c1    == [c EXCEPT !.flags =
                      set(c.flags, CARRY, BitAnd(param, \b10000000) # 0)]
    IN  set_a(c1, U8(param * 2))

\* ASL with an addressing mode: the shifted operand goes to the accumulator
asl(c, mode) ==
    LET addr  == get_oper_addr(c, mode)
        param == mem_read_incr(c, addr.val)
        c1    == [param.cpu EXCEPT !.flags =
                      set(param.cpu.flags, CARRY,
                          BitAnd(param.val, \b10000000) # 0)]
    IN  IF addr.panicked \/ param.panicked THEN Panicked(c)
        ELSE set_a(c1, U8(param.val * 2))

\* `jump as u16` of a u8: no sign extension
SignExtend_unsigned(d) == d

\* `jump as u16` of an i8: sign extension
SignExtend(d) == IF d >= \h80 THEN d + \hFF00 ELSE d

\* Branch with the target taken from the address after the displacement,
\* without the further increment
branch_from_operand(c, condition) ==
    IF condition
    THEN LET jump      == mem_read_incr(c, c.counter)
             jump_addr == U16(jump.cpu.counter + SignExtend(jump.val))
         IN  IF jump.panicked THEN Panicked(c)
             ELSE [jump.cpu EXCEPT !.counter = jump_addr]
    ELSE c

\* Branch: the displacement is read with mem_read_incr, and the target is
\* taken from the counter as that read left it
branch(c, condition) ==
    IF condition
    THEN LET jump      == mem_read_incr(c, c.counter)
             jump_addr == U16(U16(jump.cpu.counter + 1) + SignExtend(jump.val))
         IN  IF jump.panicked THEN Panicked(c)
             ELSE [jump.cpu EXCEPT !.counter = jump_addr]
    ELSE c

\* BIT with Negative and Overflow taken from the masked value a & data
bit_masked_flags(c, mode) ==
    LET addr == get_oper_addr(c, mode)
        data == mem_read_incr(c, addr.val)
        a1   == BitAnd(data.cpu.a, data.val)
        f1   == set(data.cpu.flags, ZERO, a1 = 0)
        f2   == set(f1, NEGATIVE, BitAnd(a1, \b10000000) # 0)
        f3   == set(f2, OVERFLOW, BitAnd(a1, \b01000000) # 0)
    IN  IF addr.panicked \/ data.panicked THEN Panicked(c)
        ELSE [data.cpu EXCEPT !.a = a1, !.flags = f3]

\* BIT - Bit Test
bit(c, mode) ==
    LET addr == get_oper_addr(c, mode)
        data == mem_read_incr(c, addr.val)
        a1   == BitAnd(data.cpu.a, data.val)
        f1   == set(data.cpu.flags, ZERO, a1 = 0)
        f2   == set(f1, NEGATIVE, BitAnd(data.val, \b10000000) # 0)
        f3   == set(f2, OVERFLOW, BitAnd(data.val, \b01000000) # 0)
    IN  IF addr.panicked \/ data.panicked THEN Panicked(c)
        ELSE [data.cpu EXCEPT !.a = a1, !.flags = f3]

clc(c) == [c EXCEPT !.flags = remove(c.flags, CARRY)]

\* cld removing the flag of clc
cld_as_clc(c) == [c EXCEPT !.flags = remove(c.flags, CARRY)]

cld(c) == [c EXCEPT !.flags = remove(c.flags, DECIMAL)]

\* cli removing Break2 instead of InterruptDisable
cli_clearing_break2(c) == [c EXCEPT !.flags = remove(c.flags, BREAK2)]

cli(c) == [c EXCEPT !.flags = remove(c.flags, NO_INTERRUPT)]

clv(c) == [c EXCEPT !.flags = remove(c.flags, OVERFLOW)]

\* Compare with Carry set only when the operand is strictly smaller
cmp_strict(c, mode, compare_with) ==
    LET addr == get_oper_addr(c, mode)
        data == mem_read_incr(c, addr.val)
        c1   == [data.cpu EXCEPT !.flags =
                     set(data.cpu.flags, CARRY, data.val < compare_with)]
    IN  IF addr.panicked \/ data.panicked THEN Panicked(c)
        ELSE update_flags_zero_neg(c1, U8(compare_with + 256 - data.val))

\* Compare (run calls it with the accumulator)
cmp(c, mode, compare_with) ==
    LET addr == get_oper_addr(c, mode)
        data == mem_read_incr(c, addr.val)
        c1   == [data.cpu EXCEPT !.flags =
                     set(data.cpu.flags, CARRY, data.val <= compare_with)]
    IN  IF addr.panicked \/ data.panicked THEN Panicked(c)
        ELSE update_flags_zero_neg(c1, U8(compare_with + 256 - data.val))

lda(c, mode) ==
    LET addr  == get_oper_addr(c, mode)
        param == mem_read_incr(c, addr.val)
    IN  IF addr.panicked \/ param.panicked THEN Panicked(c)
        ELSE set_a(param.cpu, param.val)

tax(c) == update_flags_zero_neg([c EXCEPT !.x = c.a], c.a)

\* inx with the flags taken from the value before the increment
inx_stale_flags(c) == update_flags_zero_neg([c EXCEPT !.x = U8(c.x + 1)], c.x)

inx(c) == update_flags_zero_neg([c EXCEPT !.x = U8(c.x + 1)], U8(c.x + 1))

\* STA: `self.counter += 1` cannot overflow here, the resolver has read the
\* byte at counter, so counter <= 0xFFFE
sta(c, mode) ==
    LET addr == get_oper_addr(c, mode)
        c1   == mem_write(c, addr.val, c.a)
    IN  IF addr.panicked \/ c1.panicked THEN Panicked(c)
        ELSE [c1 EXCEPT !.counter = c1.counter + 1]

---------------------------------------------------------------------------
(* The dispatch table of CPU::run (cpu/lifecycle.rs)                       *)

AdcOps == [o \in {\h69, \h65, \h75, \h6d, \h7d, \h79, \h61, \h71} |->
    CASE o = \h69 -> "Immediate" [] o = \h65 -> "ZeroPage"
      [] o = \h75 -> "ZeroPageX" [] o = \h6d -> "Absolute"
      [] o = \h7d -> "AbsoluteX" [] o = \h79 -> "AbsoluteY"
      [] o = \h61 -> "IndirectX" [] o = \h71 -> "IndirectY"]

AndOps == [o \in {\h29, \h25, \h35, \h2d, \h3d, \h39, \h21, \h31} |->
    CASE o = \h29 -> "Immediate" [] o = \h25 -> "ZeroPage"
      [] o = \h35 -> "ZeroPageX" [] o = \h2d -> "Absolute"
      [] o = \h3d -> "AbsoluteX" [] o = \h39 -> "AbsoluteY"
      [] o = \h21 -> "IndirectX" [] o = \h31 -> "IndirectY"]

AslOps == [o \in {\h06, \h16, \h0e, \h1e} |->
    CASE o = \h06 -> "ZeroPage" [] o = \h16 -> "ZeroPageX"
      [] o = \h0e -> "Absolute" [] o = \h1e -> "AbsoluteX"]

BitOps == [o \in {\h24, \h2c} |->
    CASE o = \h24 -> "ZeroPage" [] o = \h2c -> "Absolute"]

CmpOps == [o \in {\hc9, \hc5, \hd5, \hcd, \hdd, \hd9, \hc1, \hd1} |->
    CASE o = \hc9 -> "Immediate" [] o = \hc5 -> "ZeroPage"
      [] o = \hd5 -> "ZeroPageX" [] o = \hcd -> "Absolute"
      [] o = \hdd -> "AbsoluteX" [] o = \hd9 -> "AbsoluteY"
      [] o = \hc1 -> "IndirectX" [] o = \hd1 -> "IndirectY"]

LdaOps == [o \in {\ha9, \ha5, \hb5, \had, \hbd, \hb9, \ha1, \hb1} |->
    CASE o = \ha9 -> "Immediate" [] o = \ha5 -> "ZeroPage"
      [] o = \hb5 -> "ZeroPageX" [] o = \had -> "Absolute"
      [] o = \hbd -> "AbsoluteX" [] o = \hb9 -> "AbsoluteY"
      [] o = \ha1 -> "IndirectX" [] o = \hb1 -> "IndirectY"]

StaOps == [o \in {\h85, \h95, \h8D, \h9D, \h99, \h81, \h91} |->
    CASE o = \h85 -> "ZeroPage"  [] o = \h95 -> "ZeroPageX"
      [] o = \h8D -> "Absolute"  [] o = \h9D -> "AbsoluteX"
      [] o = \h99 -> "AbsoluteY" [] o = \h81 -> "IndirectX"
      [] o = \h91 -> "IndirectY"]

\* the condition each branch opcode hands to branch()
BranchCond(c, o) ==
    CASE o = \h90 -> ~contains(c.flags, CARRY)
      [] o = \hb0 -> contains(c.flags, CARRY)
      [] o = \hf0 -> contains(c.flags, ZERO)
      [] o = \h30 -> contains(c.flags, NEGATIVE)
      [] o = \hD0 -> ~contains(c.flags, ZERO)
      [] o = \h10 -> ~contains(c.flags, NEGATIVE)
      [] o = \h50 -> ~contains(c.flags, OVERFLOW)
      [] o = \h70 -> ~contains(c.flags, OVERFLOW)

BranchOps == {\h90, \hb0, \hf0, \h30, \hD0, \h10, \h50, \h70}

\* the match arm of one opcode other than 0x00, applied to the CPU as the
\* opcode fetch left it
dispatch(c, op) ==
    CASE op \in DOMAIN AdcOps -> adc(c, AdcOps[op])
      [] op \in DOMAIN AndOps -> and(c, AndOps[op])
      [] op = \h0a            -> asl_on_accumulator(c)
      [] op \in DOMAIN AslOps -> asl(c, AslOps[op])
      [] op \in BranchOps     -> branch(c, BranchCond(c, op))
      [] op \in DOMAIN BitOps -> bit(c, BitOps[op])
      [] op = \h18            -> clc(c)
      [] op = \hd8            -> cld(c)
      [] op = \h58            -> cli(c)
      [] op = \hb8            -> clv(c)
      [] op \in DOMAIN CmpOps -> cmp(c, CmpOps[op], c.a)
      [] op \in DOMAIN LdaOps -> lda(c, LdaOps[op])
      [] op = \haa            -> tax(c)
      [] op = \he8            -> inx(c)
      [] op \in DOMAIN StaOps -> sta(c, StaOps[op])

KnownOps ==
    DOMAIN AdcOps \cup DOMAIN AndOps \cup {\h0a} \cup DOMAIN AslOps
    \cup BranchOps \cup DOMAIN BitOps \cup {\h18, \hd8, \h58, \hb8}
    \cup DOMAIN CmpOps \cup DOMAIN LdaOps \cup {\haa, \he8} \cup DOMAIN StaOps

\* the loop with an unknown opcode skipped instead of reported
run_skip_unknown(c) ==
    LET f  == mem_read_incr(c, c.counter)
        op == f.val
    IN  IF f.panicked THEN [cpu |-> Panicked(c), next |-> "Panicked"]
        ELSE IF op = \h00 THEN [cpu |-> f.cpu, next |-> "Halted"]
        ELSE IF op \in KnownOps
             THEN LET c1 == dispatch(f.cpu, op)
                  IN  IF c1.panicked
                      THEN [cpu |-> Panicked(c), next |-> "Panicked"]
                      ELSE [cpu |-> c1, next |-> "Running"]
        ELSE [cpu |-> f.cpu, next |-> "Running"]

\* One iteration of the loop of CPU::run: the opcode fetch and the match.
\* The result is the CPU after it and what the loop does next.
run(c) ==
    LET f  == mem_read_incr(c, c.counter)
        op == f.val
    IN  IF f.panicked THEN [cpu |-> Panicked(c), next |-> "Panicked"]
        ELSE IF op = \h00 THEN [cpu |-> f.cpu, next |-> "Halted"]
        ELSE IF op \in KnownOps
             THEN LET c1 == dispatch(f.cpu, op)
                  IN  IF c1.panicked
                      THEN [cpu |-> Panicked(c), next |-> "Panicked"]
                      ELSE [cpu |-> c1, next |-> "Running"]
        ELSE [cpu |-> f.cpu, next |-> "Failed"]

---------------------------------------------------------------------------
(* Construction, load and reset (cpu/lifecycle.rs)                         *)

new ==
    [a |-> 0, flags |-> POWER_UP, counter |-> 0, x |-> 0, y |-> 0,
     memory |-> ZeroMemory, panicked |-> FALSE]

\* load onto a memory it zero-fills first
load_clearing(c, program) ==
    LET n    == Len(program)
        kept == [k \in {PRG_ORIGIN + i - 1 : i \in {j \in 1 .. n : program[j] # 0}}
                    |-> program[k - PRG_ORIGIN + 1]]
    IN  mem_write_u16([c EXCEPT !.memory = kept], RESET_VECTOR, PRG_ORIGIN)

\* copy_from_slice into memory[0x8000 .. 0x8000 + len]: the range must lie
\* inside the array, or the slice index panics; then the vector is written
load(c, program) ==
    LET n      == Len(program)
        copied == {PRG_ORIGIN + i - 1 : i \in {j \in 1 .. n : program[j] # 0}}
        others == {k \in DOMAIN c.memory : k < PRG_ORIGIN \/ k >= PRG_ORIGIN + n}
        image  == [k \in others \cup copied |->
                      IF k \in copied THEN program[k - PRG_ORIGIN + 1]
                      ELSE c.memory[k]]
    IN  IF PRG_ORIGIN + n > MEMORY_LEN THEN Panicked(c)
        ELSE mem_write_u16([c EXCEPT !.memory = image], RESET_VECTOR, PRG_ORIGIN)

\* reset with the counter set to the origin instead of the vector's value
reset_fixed_origin(c) ==
    [c EXCEPT !.a = 0, !.x = 0, !.flags = POWER_UP, !.counter = PRG_ORIGIN]

\* reset with x taken from the accumulator before it is cleared
reset_x_from_a(c) ==
    LET vec == mem_read_u16(c, RESET_VECTOR)
    IN  [c EXCEPT !.a = 0, !.x = c.a, !.flags = POWER_UP, !.counter = vec.val]

\* reset: a, x, the flags and the counter are assigned; y is not
reset(c) ==
    LET vec == mem_read_u16(c, RESET_VECTOR)
    IN  [c EXCEPT !.a = 0, !.x = 0, !.flags = POWER_UP, !.counter = vec.val]

\* load_and_run without the reset
load_and_run_no_reset(c, program) == load(c, program)

\* load_and_run up to the entry of the loop of run
load_and_run(c, program) == reset(load(c, program))

---------------------------------------------------------------------------
(* The programs the client loads.  Each is a short image that reaches one  *)
(* family of opcodes, addressing modes or flag conditions.                 *)

Programs ==
    { <<>>,
      <<\ha9, \hc0, \haa, \he8, \h00>>,          \* LDA #C0; TAX; INX; BRK
      <<\hff>>,                                  \* an unknown opcode
      <<\ha9, \h00, \haa, \h02>>,                \* LDA #00; TAX; unknown
      <<\ha9, \h7f, \h69, \h01, \h70, \h01>>,    \* ADC overflow; BVS
      <<\ha9, \hff, \h69, \h01, \h69, \h00, \hb0, \h00>>, \* carry; BCS
      <<\ha9, \h55, \h29, \haa, \hf0, \h02>>,    \* AND to zero; BEQ
      <<\ha9, \h81, \h0a, \h90, \h00, \he8>>,    \* ASL A; BCC not taken
      <<\ha9, \hc1, \h85, \h10, \h06, \h10>>,    \* STA zp; ASL zp
      <<\h90, \h01, \he8, \he8, \he8>>,          \* BCC taken, forward
      <<\hb0, \he8, \h00>>,                      \* BCS not taken
      <<\ha9, \h20, \h0a, \hd0, \hfc>>,        \* ASL A; BNE back to ASL
      <<\h10, \hfd>>,                            \* BPL onto itself
      <<\h18, \h90, \hfc>>,                      \* CLC; BCC back to CLC
      <<\ha9, \h80, \h30, \h7f, \h10, \h00>>,    \* BMI taken; BPL not taken
      <<\h50, \h80>>,                            \* BVC taken, backwards
      <<\ha9, \h40, \h85, \h20, \h24, \h20, \hb8, \h18>>, \* BIT zp; CLV; CLC
      <<\hd8, \h58, \hc9, \h00, \hc9, \h01>>,    \* CLD; CLI; CMP #
      <<\had, \h00, \he8, \h00>>,                \* LDA abs
      <<\ha9, \hc1, \h8d, \h10, \h00, \he8>>,    \* STA abs to 0010; INX
      <<\ha9, \h12, \h8d, \hfc, \hff>>,          \* STA abs onto the vector
      <<\he8, \hb5, \hff, \h95, \h01, \h75, \h00>>, \* zero page, X
      <<\ha9, \h03, \haa, \hbd, \h00, \h80, \h9d, \h00, \h00>>, \* abs, X
      <<\hb9, \h01, \h80, \h99, \h30, \h00, \h79, \h02>>,  \* abs, Y
      <<\ha1, \h00, \h81, \hfe, \h61, \hff>>,    \* (indirect, X)
      <<\hb1, \h00, \h91, \h02, \h71, \hff>>,    \* (indirect), Y
      <<\h2d, \h01, \h80, \h2c, \h00, \h80, \hcd, \h02>>,  \* AND, BIT, CMP abs
      <<\hbd, \hff, \hff>>,                      \* LDA abs,X at the last cell
      <<\ha9, \h01, \h1e, \h00, \h0e, \h16, \h00>>  \* ASL abs,X / abs / zp,X
    }

Callable == state \in {"Idle", "Halted", "Failed"}

\* the record of an operation: its name, the opcode it fetched (256 when it
\* fetched none), the counter it started from and the program last loaded
Did(name, op, pc, prog) == [name |-> name, op |-> op, pc |-> pc, prog |-> prog]

---------------------------------------------------------------------------
(* The client's calls on one CPU instance                                  *)

Init ==
    /\ cpu = new
    /\ state = "Idle"
    /\ act = Did("new", 256, 0, <<>>)
    /\ loads = 0
    /\ calls = 0
    /\ cpu2 = new
    /\ state2 = "Idle"
    /\ phase2 = 0

Load(program) ==
    /\ Callable
    /\ loads < MaxLoads
    /\ cpu' = load(cpu, program)
    /\ state' = IF cpu'.panicked THEN "Panicked" ELSE "Idle"
    /\ act' = Did("load", 256, cpu.counter, program)
    /\ loads' = loads + 1
    /\ UNCHANGED <<calls, cpu2, state2, phase2>>

Reset ==
    /\ Callable
    /\ calls < MaxCalls
    /\ cpu' = reset(cpu)
    /\ state' = "Idle"
    /\ act' = Did("reset", 256, cpu.counter, act.prog)
    /\ calls' = calls + 1
    /\ UNCHANGED <<loads, cpu2, state2, phase2>>

\* run is entered: the loop starts at the current counter
Run ==
    /\ Callable
    /\ calls < MaxCalls
    /\ state' = "Running"
    /\ act' = Did("run", 256, cpu.counter, act.prog)
    /\ calls' = calls + 1
    /\ UNCHANGED <<cpu, loads, cpu2, state2, phase2>>

\* load_and_run: load, reset, and run is entered
LoadAndRun(program) ==
    /\ Callable
    /\ loads < MaxLoads
    /\ cpu' = load_and_run(cpu, program)
    /\ state' = IF cpu'.panicked THEN "Panicked" ELSE "Running"
    /\ act' = Did("load_and_run", 256, cpu.counter, program)
    /\ loads' = loads + 1
    /\ UNCHANGED <<calls, cpu2, state2, phase2>>

\* one iteration of the loop of run
RunStep ==
    /\ state = "Running"
    /\ LET r == run(cpu)
       IN  cpu' = r.cpu /\ state' = r.next
    /\ act' = Did("step", IF InBounds(cpu.counter)
                          THEN Cell(cpu.memory, cpu.counter) ELSE 256,
                  cpu.counter, act.prog)
    /\ UNCHANGED <<loads, calls, cpu2, state2, phase2>>

LoadAny == \E program \in Programs : Load(program)

LoadAndRunAny == \E program \in Programs : LoadAndRun(program)

Next == LoadAny \/ Reset \/ Run \/ LoadAndRunAny \/ RunStep

Spec == Init /\ [][Next]_vars

---------------------------------------------------------------------------
(* The end-to-end program of tests/cpu.rs, for every immediate byte, on a  *)
(* freshly constructed CPU                                                 *)

E2EProgram(v) == <<\ha9, v, \haa, \he8, \h00>>

E2ELoadAndRun ==
    \E v \in 0 .. 255 : act.name = "new" /\ LoadAndRun(E2EProgram(v))

NextE2E == E2ELoadAndRun \/ RunStep

SpecE2E == Init /\ [][NextE2E]_vars

---------------------------------------------------------------------------
(* Two CPU instances that start equal: the first is driven by              *)
(* load_and_run, the second by load, reset and run as three calls; once    *)
(* both are in the loop they step together.  The registers are public      *)
(* fields, so the client can have left any value in them; the memories are *)
(* those a load or a store leaves.                                         *)

PairMemories ==
    { ZeroMemory,
      load(new, <<\he8, \he8, \he8, \he8, \he8, \he8, \he8, \he8>>).memory,
      mem_write(load(new, <<\ha9>>), \h10, \hc1).memory }

PairStarts ==
    { [new EXCEPT !.a = a0, !.x = x0, !.y = y0, !.flags = f0,
                  !.counter = pc0, !.memory = m0] :
        a0 \in {0, \h80}, x0 \in {0, 1}, y0 \in {0, 1},
        f0 \in {POWER_UP, \he3}, pc0 \in {0, \h8003}, m0 \in PairMemories }

InitPair ==
    /\ cpu \in PairStarts
    /\ cpu2 = cpu
    /\ state = "Idle"
    /\ state2 = "Idle"
    /\ phase2 = 0
    /\ \E program \in Programs : act = Did("new", 256, 0, program)
    /\ loads = 0
    /\ calls = 0

PairLoadAndRun ==
    /\ state = "Idle"
    /\ cpu' = load_and_run(cpu, act.prog)
    /\ state' = "Running"
    /\ UNCHANGED <<act, loads, calls, cpu2, state2, phase2>>

PairLoad ==
    /\ phase2 = 0
    /\ cpu2' = load(cpu2, act.prog)
    /\ phase2' = 1
    /\ UNCHANGED <<cpu, state, act, loads, calls, state2>>

PairReset ==
    /\ phase2 = 1
    /\ cpu2' = reset(cpu2)
    /\ phase2' = 2
    /\ UNCHANGED <<cpu, state, act, loads, calls, state2>>

PairRun ==
    /\ phase2 = 2
    /\ state2' = "Running"
    /\ phase2' = 3
    /\ UNCHANGED <<cpu, state, act, loads, calls, cpu2>>

\* both loops make one iteration (a loop that has returned stays returned)
PairStep ==
    /\ state # "Idle"
    /\ phase2 = 3
    /\ state = "Running" \/ state2 = "Running"
    /\ LET r  == run(cpu)
           r2 == run(cpu2)
       IN  /\ cpu'    = IF state  = "Running" THEN r.cpu   ELSE cpu
           /\ state'  = IF state  = "Running" THEN r.next  ELSE state
           /\ cpu2'   = IF state2 = "Running" THEN r2.cpu  ELSE cpu2
           /\ state2' = IF state2 = "Running" THEN r2.next ELSE state2
    /\ act' = Did("step", 256, cpu.counter, act.prog)
    /\ UNCHANGED <<loads, calls, phase2>>

NextPair == PairLoadAndRun \/ PairLoad \/ PairReset \/ PairRun \/ PairStep

SpecPair == InitPair /\ [][NextPair]_vars

---------------------------------------------------------------------------
(* add_to_a as a function of the accumulator, the operand and the flags    *)

InitAdc ==
    /\ \E a0 \in 0 .. 255 :
       \E f0 \in {POWER_UP, POWER_UP + CARRY, POWER_UP + OVERFLOW,
                  POWER_UP + CARRY + OVERFLOW} :
           cpu = [new EXCEPT !.a = a0, !.flags = f0]
    /\ state = "Idle"
    /\ act = Did("new", 256, 0, <<>>)
    /\ loads = 0
    /\ calls = 0
    /\ cpu2 = new
    /\ state2 = "Idle"
    /\ phase2 = 0

AddToA ==
    \E data \in 0 .. 255 :
        /\ act.name = "new"
        /\ cpu' = add_to_a(cpu, data)
        /\ act' = Did("add_to_a", data, 0, <<>>)
        /\ UNCHANGED <<state, loads, calls, cpu2, state2, phase2>>

NextAdc == AddToA

SpecAdc == InitAdc /\ [][NextAdc]_vars

---------------------------------------------------------------------------
(* load on a CPU that has run a program, with the programs of the client   *)
(* and with images that reach the end of the memory: all zero but their    *)
(* last byte, of a length from the reset vector's offset up to one more   *)
(* than the array holds from 0x8000                                        *)

LongProgram(n, v) == [i \in 1 .. n |-> IF i = n THEN v ELSE 0]

LongPrograms ==
    { LongProgram(n, v) :
        n \in (RESET_VECTOR - PRG_ORIGIN) .. (MEMORY_LEN - PRG_ORIGIN + 1),
        v \in {\h01, \hea} }

UsedBy ==
    { <<\ha9, \hc1, \h85, \h10, \h06, \h10>>,
      <<\ha9, \h12, \h8d, \hfc, \hff>>,
      <<\ha9, \hff, \h69, \h01, \h69, \h00, \hb0, \h00>> }

UseFirst ==
    \E program \in UsedBy : act.name = "new" /\ LoadAndRun(program)

LoadImage ==
    \E program \in Programs \cup LongPrograms :
        state \in {"Halted", "Failed"} /\ Load(program)

NextLoad == UseFirst \/ RunStep \/ LoadImage

SpecLoad == Init /\ [][NextLoad]_vars

---------------------------------------------------------------------------
(* The helpers and handlers called one at a time, as the unit tests of     *)
(* cpu/memory.rs and cpu/operations.rs call them: a CPU is set up (the     *)
(* fields a, x, y, flags and counter are public, the tests write the       *)
(* memory), one helper is called and its result is looked at.  reset and   *)
(* run can be called on such a CPU as on any other.                        *)

Modes ==
    {"Immediate", "ZeroPage", "ZeroPageX", "ZeroPageY", "Absolute",
     "AbsoluteX", "AbsoluteY", "IndirectX", "IndirectY"}

\* a memory given by its non-zero cells
MemoryOf(cells) == [k \in {c[1] : c \in cells} |->
                       (CHOOSE c \in cells : c[1] = k)[2]]

\* the memories of the tests (operand bytes at the origin, pointers in the
\* zero page), with the same bytes also placed at the top of the memory,
\* and pointers that sit on the last cell of the zero page
UnitMemories ==
    { MemoryOf({<<\h8000, \hef>>, <<\h8001, \hbe>>, <<\hfffc, \h00>>,
                <<\hfffd, \h80>>, <<\h00ef, \h34>>, <<\h00f0, \h12>>}),
      MemoryOf({<<\h8000, \hde>>, <<\h00df, \hef>>, <<\h00e0, \hbe>>,
                <<\hfffd, \h80>>}),
      MemoryOf({<<\h8000, \hde>>, <<\h00de, \hef>>, <<\h00df, \hbe>>,
                <<\hfffd, \h80>>, <<\hfffe, \hde>>}),
      MemoryOf({<<\h8000, \hff>>, <<\h00ff, \h34>>, <<\h0000, \h12>>,
                <<\h0100, \h99>>, <<\h00fe, \h77>>, <<\hfffd, \hff>>,
                <<\hfffc, \hfe>>, <<\hfffe, \hff>>}),
      MemoryOf({<<\h8000, \h0a>>, <<\h8001, \h90>>, <<\h00ff, \h7f>>,
                <<\hfffc, \hfd>>, <<\hfffd, \he8>>, <<\hfffe, \ha9>>}) }

UnitCounters == {\h8000, \h00ff, \hfffd, \hfffe, \hffff}

UnitIndexes == {<<0, 0>>, <<1, 1>>, <<\hff, 1>>, <<2, \hff>>}

UnitAddrs == {\h0000, \h00ff, \h8000, \hfffc, \hfffe, \hffff}

InitUnit ==
    /\ \E m \in UnitMemories, pc \in UnitCounters, xy \in UnitIndexes,
          f \in {POWER_UP, \b11000011} :
           cpu = [new EXCEPT !.a = \h42, !.x = xy[1], !.y = xy[2],
                             !.flags = f, !.counter = pc, !.memory = m]
    /\ state = "Idle"
    /\ act = Did("new", 256, 0, <<>>)
    /\ loads = 0
    /\ calls = 0
    /\ cpu2 = new
    /\ state2 = "Idle"
    /\ phase2 = 0

\* the record of one call: the helper, its argument, what it returned
Called(name, arg, ret) ==
    [name |-> name, op |-> 256, pc |-> cpu.counter, prog |-> <<>>,
     arg |-> arg, ret |-> ret]

\* one call on the CPU as it was set up; c is the CPU the call leaves
UnitCall(name, arg, ret, c) ==
    /\ act.name = "new"
    /\ state = "Idle"
    /\ act' = Called(name, arg, ret)
    /\ cpu' = c
    /\ state' = IF c.panicked THEN "Panicked" ELSE "Idle"
    /\ UNCHANGED <<loads, calls, cpu2, state2, phase2>>

OperandAddress ==
    \E mode \in Modes :
        LET r == operand_address(cpu, mode)
        IN  UnitCall("operand_address", mode, r,
                     IF r.panicked THEN Panicked(cpu) ELSE cpu)

MemRead ==
    \E addr \in UnitAddrs :
        LET r == mem_read(cpu, addr)
        IN  UnitCall("mem_read", addr, r,
                     IF r.panicked THEN Panicked(cpu) ELSE cpu)

MemWrite ==
    \E addr \in UnitAddrs, data \in {\h00, \hab} :
        LET c == mem_write(cpu, addr, data)
        IN  UnitCall("mem_write", <<addr, data>>,
                     [panicked |-> c.panicked, val |-> 0], c)

MemReadU16 ==
    \E addr \in UnitAddrs :
        LET r == mem_read_u16(cpu, addr)
        IN  UnitCall("mem_read_u16", addr, r,
                     IF r.panicked THEN Panicked(cpu) ELSE cpu)

MemWriteU16 ==
    \E addr \in UnitAddrs, data \in {\hbeef, \h0100} :
        LET c == mem_write_u16(cpu, addr, data)
        IN  UnitCall("mem_write_u16", <<addr, data>>,
                     [panicked |-> c.panicked, val |-> 0], c)

Branch ==
    \E condition \in BOOLEAN :
        LET c == branch(cpu, condition)
        IN  UnitCall("branch", condition,
                     [panicked |-> c.panicked, val |-> 0], c)

NextUnit ==
    \/ OperandAddress \/ MemRead \/ MemWrite \/ MemReadU16 \/ MemWriteU16
    \/ Branch \/ Reset \/ Run \/ RunStep

SpecUnit == InitUnit /\ [][NextUnit]_vars

---------------------------------------------------------------------------
(* cmp called as its unit tests call it, load(vec![m]); reset();           *)
(* cmp(Immediate, r), for every operand m and every register value r, with *)
(* Carry clear and set beforehand and non-zero registers                   *)

InitCmp ==
    /\ \E m \in 0 .. 255, f0 \in {POWER_UP, POWER_UP + CARRY} :
           cpu = [reset(load(new, <<m>>)) EXCEPT
                     !.a = \h55, !.x = \h33, !.y = \h77, !.flags = f0]
    /\ state = "Idle"
    /\ act = Did("new", 256, 0, <<>>)
    /\ loads = 0
    /\ calls = 0
    /\ cpu2 = new
    /\ state2 = "Idle"
    /\ phase2 = 0

Cmp ==
    \E compare_with \in 0 .. 255 :
        LET c == cmp(cpu, "Immediate", compare_with)
        IN  UnitCall("cmp", compare_with,
                     [panicked |-> c.panicked, val |-> 0], c)

NextCmp == Cmp

SpecCmp == InitCmp /\ [][NextCmp]_vars

---------------------------------------------------------------------------
(* The handlers called one at a time as the unit tests of operations.rs    *)
(* call them (load(vec![m, 0xff]); reset(); cpu.a = a; handler), for every *)
(* accumulator, a set of operand bytes and two flag patterns: the power-up *)
(* one and one with Carry, Zero, Decimal, Overflow and Negative set.  The  *)
(* first byte m is an operand for the handlers that read one; it is also   *)
(* the opcode run fetches when run is called on that CPU.                  *)

OperandValues ==
    {\h00, \h01, \h40, \h55, \h7f, \h80, \haa, \hc0, \hff,
     \h0a, \h18, \hd8, \h58, \hb8}

InitOps ==
    /\ \E a0 \in 0 .. 255, m \in OperandValues, f0 \in {POWER_UP, \b11001011} :
           cpu = [reset(load(mem_write(new, \h0010, \h99), <<m, \hff>>))
                     EXCEPT !.a = a0, !.x = 1, !.y = 2, !.flags = f0]
    /\ state = "Idle"
    /\ act = Did("new", 256, 0, <<>>)
    /\ loads = 0
    /\ calls = 0
    /\ cpu2 = new
    /\ state2 = "Idle"
    /\ phase2 = 0

\* a handler that returns nothing
Handler(name, arg, c) ==
    UnitCall(name, arg, [panicked |-> c.panicked, val |-> 0], c)

AslOnAccumulator == Handler("asl_on_accumulator", 0, asl_on_accumulator(cpu))

Bit == Handler("bit", "Immediate", bit(cpu, "Immediate"))

Sta ==
    \E mode \in {StaOps[o] : o \in DOMAIN StaOps} :
        Handler("sta", mode, sta(cpu, mode))

Clc == Handler("clc", 0, clc(cpu))

Cld == Handler("cld", 0, cld(cpu))

Cli == Handler("cli", 0, cli(cpu))

Clv == Handler("clv", 0, clv(cpu))

\* run called on the CPU as it was set up
RunOps == act.name = "new" /\ Run

NextOps ==
    \/ AslOnAccumulator \/ Bit \/ Sta \/ Clc \/ Cld \/ Cli \/ Clv
    \/ RunOps \/ RunStep

SpecOps == InitOps /\ [][NextOps]_vars

---------------------------------------------------------------------------
(* One CPU instance used for two programs in turn, next to a freshly       *)
(* constructed CPU (cpu2) that is given the second program only.  Once the *)
(* first load_and_run has returned, the second program is loaded and run   *)
(* on both, and the loop of run is followed on each.                       *)

InitReuse ==
    /\ cpu = new
    /\ cpu2 = new
    /\ state = "Idle"
    /\ state2 = "Idle"
    /\ phase2 = 0
    /\ act = Did("new", 256, 0, <<>>)
    /\ loads = 0
    /\ calls = 0

ReuseFirst ==
    \E program \in Programs : act.name = "new" /\ LoadAndRun(program)

ReuseAgain ==
    \E program \in Programs :
        /\ state \in {"Halted", "Failed"}
        /\ phase2 = 0
        /\ cpu' = load_and_run(cpu, program)
        /\ cpu2' = load_and_run(cpu2, program)
        /\ state' = IF cpu'.panicked THEN "Panicked" ELSE "Running"
        /\ state2' = IF cpu2'.panicked THEN "Panicked" ELSE "Running"
        /\ phase2' = 3
        /\ act' = Did("load_and_run", 256, cpu.counter, program)
        /\ loads' = loads + 1
        /\ UNCHANGED calls

\* one iteration of the loop of run on the fresh CPU
FreshStep ==
    /\ state2 = "Running"
    /\ LET r == run(cpu2)
       IN  cpu2' = r.cpu /\ state2' = r.next
    /\ UNCHANGED <<cpu, state, act, loads, calls, phase2>>

\* one iteration of the loop of run on the reused CPU
ReuseStep == state2 # "Running" /\ RunStep

NextReuse == ReuseFirst \/ ReuseAgain \/ FreshStep \/ ReuseStep

SpecReuse == InitReuse /\ [][NextReuse]_vars

---------------------------------------------------------------------------
(* One load_and_run on a freshly constructed CPU, followed to its end: the *)
(* loop of run is synchronous, so once entered it keeps taking steps.      *)

NextLinear == ReuseFirst \/ RunStep

SpecLinear == Init /\ [][NextLinear]_vars /\ WF_vars(RunStep)

---------------------------------------------------------------------------
(* Claims                                                                  *)

Flag(c, mask) == contains(c.flags, mask)
Bit7(v) == v >= 128
Returned == state \in {"Halted", "Failed"}

\* C1: for every byte v, load_and_run of [A9, v, AA, E8, 00] on a fresh CPU
\* never fails or panics, runs only through the five program bytes, and
\* halts with a = v, x = (v + 1) mod 256 and Zero / Negative those of the
\* final x (v = C0 gives x = C1).
C1_EndToEnd ==
    /\ state \notin {"Failed", "Panicked"}
    /\ act.name # "new" =>
         LET v == act.prog[2]
         IN  /\ state = "Running" =>
                   cpu.counter \in {\h8000, \h8002, \h8003, \h8004}
             /\ state = "Halted" =>
                   /\ cpu.counter = \h8005
                   /\ cpu.a = v
                   /\ cpu.x = (v + 1) % 256
                   /\ Flag(cpu, ZERO) = (cpu.x = 0)
                   /\ Flag(cpu, NEGATIVE) = Bit7(cpu.x)
                   /\ (v = \hc0 => cpu.x = \hc1)

C1_Witness ==
    /\ state = "Halted"
    /\ act.prog = E2EProgram(\hc0)
    /\ cpu.x = \hc1
    /\ Flag(cpu, NEGATIVE)


\* the opcode a running loop fetches next (256 when the fetch is out of bounds)
Fetched ==
    IF InBounds(cpu.counter) THEN Cell(cpu.memory, cpu.counter) ELSE 256

SameButCounter(c, d) ==
    /\ c.a = d.a /\ c.x = d.x /\ c.y = d.y
    /\ c.flags = d.flags /\ c.memory = d.memory

\* C2: a running loop that fetches a byte that is neither 0x00 nor in the
\* dispatch table returns the failure at that step, with a, x, y, the flags
\* and the memory as they were; after the failure no instruction executes.
C2_UnknownOpcode ==
    [][ /\ (state = "Running" /\ Fetched \notin KnownOps \cup {0, 256})
            => /\ state' = "Failed"
               /\ SameButCounter(cpu', cpu)
        /\ state = "Failed" => act'.name # "step"
      ]_vars

C2_Witness ==
    /\ state = "Failed"
    /\ act = Did("step", \hff, \h8000, <<\hff>>)
    /\ cpu.a = 0

\* the operand bytes each addressing mode takes, as documented
ModeOf(op) ==
    CASE op \in DOMAIN AdcOps -> AdcOps[op]
      [] op \in DOMAIN AndOps -> AndOps[op]
      [] op \in DOMAIN AslOps -> AslOps[op]
      [] op \in DOMAIN BitOps -> BitOps[op]
      [] op \in DOMAIN CmpOps -> CmpOps[op]
      [] op \in DOMAIN LdaOps -> LdaOps[op]
      [] op \in DOMAIN StaOps -> StaOps[op]
      [] op \in BranchOps     -> "Relative"
      [] OTHER                -> "Implied"

OperandLen(mode) ==
    CASE mode = "Implied" -> 0
      [] mode \in {"Absolute", "AbsoluteX", "AbsoluteY"} -> 2
      [] OTHER -> 1

\* the addresses of the operand bytes of the instruction whose opcode is at p
OperandBytes(op, p) ==
    {U16(p + i) : i \in 1 .. OperandLen(ModeOf(op))}

\* C3: run returns success exactly at the step whose fetched opcode is 0x00;
\* a 0x00 byte that the preceding instruction read as its operand does not
\* halt the loop; once run has returned no instruction executes.
C3_HaltsOnlyOnFetchedZero ==
    [][ /\ (state = "Running" /\ Fetched # 256)
            => ((state' = "Halted") <=> (Fetched = 0))
        /\ (/\ state = "Running"
            /\ act.name = "step"
            /\ act.op \in KnownOps \ BranchOps
            /\ cpu.counter \in OperandBytes(act.op, act.pc))
            => state' # "Halted"
        /\ Returned => act'.name # "step"
      ]_vars

\* C4: load_and_run(bytes) gives the result and the final CPU that load(bytes),
\* reset() and run() give from the same state, at every iteration of the loop.
C4_LoadAndRunIsLoadResetRun ==
    (state # "Idle" /\ phase2 = 3) => (cpu = cpu2 /\ state = state2)

C4_Witness ==
    /\ phase2 = 3
    /\ state = "Halted" /\ state2 = "Halted"
    /\ cpu.x = \hc1 /\ cpu.y = 1 /\ cpu2.y = 1
    /\ Cell(cpu.memory, \h10) = \hc1

\* the program ends inside the memory array
Fits(bytes) == PRG_ORIGIN + Len(bytes) <= MEMORY_LEN

\* what load leaves, the program's bytes being compared on `cells`
LoadFrame(bytes, c, d, cells) ==
    /\ ~d.panicked
    /\ \A i \in 1 .. Len(bytes) :
           (\h8000 + i - 1) \in cells => Cell(d.memory, \h8000 + i - 1) = bytes[i]
    /\ Cell(d.memory, \hFFFC) = \h00
    /\ Cell(d.memory, \hFFFD) = \h80
    /\ \A k \in (DOMAIN c.memory \cup DOMAIN d.memory) \ {\hFFFC, \hFFFD} :
           (k < \h8000 \/ k >= \h8000 + Len(bytes))
               => Cell(d.memory, k) = Cell(c.memory, k)
    /\ d.a = c.a /\ d.x = c.x /\ d.y = c.y
    /\ d.flags = c.flags /\ d.counter = c.counter

\* C5 as stated: for every program that fits from 0x8000 into the memory,
\* load(bytes) puts bytes[i] at 0x8000 + i for every index i, 0x00 at 0xFFFC
\* and 0x80 at 0xFFFD, and changes no other memory cell, no register, no
\* flag and not the counter.
C5_LoadFrame ==
    [][ (act'.name = "load" /\ Fits(act'.prog))
        => LoadFrame(act'.prog, cpu, cpu', 0 .. \hFFFF) ]_vars

\* C5 amended: the same, with bytes[i] at 0x8000 + i for every index i whose
\* cell is not one of the two cells of the reset vector.
C5_LoadFrameAmended ==
    [][ (act'.name = "load" /\ Fits(act'.prog))
        => LoadFrame(act'.prog, cpu, cpu', (0 .. \hFFFF) \ {\hFFFC, \hFFFD})
      ]_vars

C5_Witness ==
    /\ act.name = "load"
    /\ Len(act.prog) = \h7FFD
    /\ act.prog[\h7FFD] # 0
    /\ Cell(cpu.memory, \hFFFC) = 0
    /\ cpu.a # 0
    /\ cpu.flags # POWER_UP
    /\ Cell(cpu.memory, \h10) # 0

\* C6: reset() sets a and x to 0, the flags to bits 2 and 5 only, the counter
\* to memory[0xFFFC] + 256 * memory[0xFFFD], and leaves the memory as it was.
C6_Reset ==
    [][ act'.name = "reset" =>
          /\ cpu'.a = 0
          /\ cpu'.x = 0
          /\ cpu'.flags = 4 + 32
          /\ cpu'.counter = Cell(cpu.memory, \hFFFC)
                              + 256 * Cell(cpu.memory, \hFFFD)
          /\ cpu'.memory = cpu.memory
          /\ ~cpu'.panicked
      ]_vars

C6_Witness ==
    /\ act.name = "reset"
    /\ cpu.counter = \h8012
    /\ cpu.a = 0

\* C7: right after LDA, AND, ADC, ASL on the accumulator, TAX or INX has
\* executed, Zero is set exactly when the register it wrote is 0 and
\* Negative exactly when bit 7 of that register is set (never both).
AccumulatorOps ==
    DOMAIN LdaOps \cup DOMAIN AndOps \cup DOMAIN AdcOps \cup {\h0a}

C7_ZeroNegative ==
    (act.name = "step" /\ state = "Running"
        /\ act.op \in AccumulatorOps \cup {\haa, \he8})
    => LET v == IF act.op \in AccumulatorOps THEN cpu.a ELSE cpu.x
       IN  /\ Flag(cpu, ZERO) = (v = 0)
           /\ Flag(cpu, NEGATIVE) = Bit7(v)
           /\ ~(Flag(cpu, ZERO) /\ Flag(cpu, NEGATIVE))

C7_Witness ==
    /\ act.name = "step" /\ state = "Running"
    /\ act.op = \h69
    /\ cpu.a = 1
    /\ ~Flag(cpu, ZERO) /\ ~Flag(cpu, NEGATIVE)
    /\ act.prog = <<\ha9, \hff, \h69, \h01, \h69, \h00, \hb0, \h00>>

\* C8: add_to_a leaves a = (a + m + c) mod 256, Carry = (a + m + c > 255) and
\* Overflow set exactly when a and m have the same bit 7 and the result's
\* bit 7 differs from it.
C8_AddWithCarry ==
    [][ act'.name = "add_to_a" =>
          LET a0 == cpu.a
              m  == act'.op
              c0 == IF Flag(cpu, CARRY) THEN 1 ELSE 0
              r  == cpu'.a
          IN  /\ r = (a0 + m + c0) % 256
              /\ Flag(cpu', CARRY) = (a0 + m + c0 > 255)
              /\ Flag(cpu', OVERFLOW) =
                    (Bit7(a0) = Bit7(m) /\ Bit7(r) # Bit7(a0))
              /\ (a0 = \h7f /\ m = 1 /\ c0 = 0) =>
                    (r = \h80 /\ Flag(cpu', OVERFLOW) /\ ~Flag(cpu', CARRY))
              /\ (a0 = \hff /\ m = 1 /\ c0 = 0) =>
                    (r = 0 /\ Flag(cpu', CARRY) /\ ~Flag(cpu', OVERFLOW))
      ]_vars

C8_Witness ==
    /\ act.name = "add_to_a"
    /\ act.op = \h01
    /\ cpu.a = \h80
    /\ Flag(cpu, OVERFLOW) /\ ~Flag(cpu, CARRY) /\ Flag(cpu, NEGATIVE)

\* C9: a taken branch whose displacement byte d is at address p leaves the
\* counter at (p + 1 + signext8(d)) mod 65536.
C9_BranchTarget ==
    [][ (/\ act'.name = "step"
         /\ state' = "Running"
         /\ act'.op \in BranchOps
         /\ BranchCond(cpu, act'.op))
        => LET p == U16(cpu.counter + 1)
               d == Cell(cpu.memory, p)
           IN  cpu'.counter = (p + 1 + SignExtend(d)) % 65536
      ]_vars

\* C10: after a non-branch, non-halt instruction whose opcode is at p the
\* counter is p + 1 for the operand-less forms, p + 2 for the one-byte
\* operand forms and p + 3 for the absolute forms (mod 65536).
C10_CounterAfterInstruction ==
    [][ (/\ act'.name = "step"
         /\ state' = "Running"
         /\ act'.op \in KnownOps \ BranchOps)
        => cpu'.counter =
              (cpu.counter + 1 + OperandLen(ModeOf(act'.op))) % 65536
      ]_vars

\* what a 16-bit little-endian read at addr gives when addresses wrap
WordAt(m, addr) == Cell(m, addr) + 256 * Cell(m, U16(addr + 1))

\* C11: every counter advance and address computation of run, the resolver
\* and the 16-bit helpers is taken modulo 65536 and never fails: a 16-bit
\* read at addr gives the bytes at addr and (addr + 1) mod 65536, a 16-bit
\* write stores them there, the resolver returns an address in every mode,
\* and an instruction whose last byte is at 0xFFFF leaves the counter at 0.
C11_AddressesWrap ==
    [][ /\ act'.name = "mem_read_u16"
            => /\ ~act'.ret.panicked
               /\ act'.ret.val = WordAt(cpu.memory, act'.arg)
        /\ act'.name = "mem_write_u16"
            => /\ ~cpu'.panicked
               /\ WordAt(cpu'.memory, act'.arg[1]) = act'.arg[2]
        /\ act'.name = "operand_address" => ~act'.ret.panicked
        /\ (/\ act'.name = "step"
            /\ Cell(cpu.memory, cpu.counter) \in KnownOps \ BranchOps
            /\ cpu.counter
                 + OperandLen(ModeOf(Cell(cpu.memory, cpu.counter))) = \hFFFF)
            => /\ state' # "Panicked"
               /\ cpu'.counter = 0
      ]_vars

\* the operand bytes of a state: the bytes at the counter and right after it
OperandByte(c, i) == Cell(c.memory, U16(c.counter + i))

\* C12: in every state, with b0 and b1 the bytes at the counter and at the
\* counter + 1, Immediate resolves to the counter, ZeroPage to b0,
\* ZeroPageX / ZeroPageY to (b0 + x) mod 256 / (b0 + y) mod 256, Absolute to
\* b0 + 256 * b1 and AbsoluteX / AbsoluteY to that plus x / y, mod 65536.
C12_DirectModes ==
    [][ act'.name = "operand_address"
        => LET b0   == OperandByte(cpu, 0)
               b1   == OperandByte(cpu, 1)
               mode == act'.arg
               addr == act'.ret.val
           IN  /\ mode \in Modes \ {"IndirectX", "IndirectY"}
                      => ~act'.ret.panicked
               /\ mode = "Immediate" => addr = cpu.counter
               /\ mode = "ZeroPage"  => addr = b0
               /\ mode = "ZeroPageX" => addr = (b0 + cpu.x) % 256
               /\ mode = "ZeroPageY" => addr = (b0 + cpu.y) % 256
               /\ mode = "Absolute"  => addr = b0 + 256 * b1
               /\ mode = "AbsoluteX" => addr = (b0 + 256 * b1 + cpu.x) % 65536
               /\ mode = "AbsoluteY" => addr = (b0 + 256 * b1 + cpu.y) % 65536
      ]_vars

\* C13: in every state, with b the byte at the counter, IndirectX resolves to
\* memory[q] + 256 * memory[(q + 1) mod 256] with q = (b + x) mod 256, and
\* IndirectY to (memory[b] + 256 * memory[(b + 1) mod 256] + y) mod 65536:
\* the high byte of the pointer always comes from the zero page.
C13_IndirectModes ==
    [][ act'.name = "operand_address"
        => LET b    == OperandByte(cpu, 0)
               q    == (b + cpu.x) % 256
               m    == cpu.memory
               mode == act'.arg
               addr == act'.ret.val
           IN  /\ mode \in {"IndirectX", "IndirectY"} => ~act'.ret.panicked
               /\ mode = "IndirectX"
                      => addr = Cell(m, q) + 256 * Cell(m, (q + 1) % 256)
               /\ mode = "IndirectY"
                      => addr = (Cell(m, b) + 256 * Cell(m, (b + 1) % 256)
                                 + cpu.y) % 65536
      ]_vars

\* C14: for every register value r and operand m, compare leaves
\* Carry = (m <= r), Zero = (r = m) and Negative = bit 7 of (r - m) mod 256,
\* and changes neither a, x, y nor the memory; r = 2, m = 1 sets Carry and
\* r = 1, m = 2 clears a Carry that was set.
C14_Compare ==
    [][ act'.name = "cmp"
        => LET r == act'.arg
               m == Cell(cpu.memory, cpu.counter)
           IN  /\ ~cpu'.panicked
               /\ Flag(cpu', CARRY) = (m <= r)
               /\ Flag(cpu', ZERO) = (r = m)
               /\ Flag(cpu', NEGATIVE) = Bit7((r + 256 - m) % 256)
               /\ cpu'.a = cpu.a /\ cpu'.x = cpu.x /\ cpu'.y = cpu.y
               /\ cpu'.memory = cpu.memory
               /\ (r = 2 /\ m = 1) => Flag(cpu', CARRY)
               /\ (r = 1 /\ m = 2) => ~Flag(cpu', CARRY)
      ]_vars

C14_Witness ==
    /\ act.name = "cmp"
    /\ act.arg = 1
    /\ Cell(cpu.memory, \h8000) = 2
    /\ ~Flag(cpu, CARRY) /\ Flag(cpu, NEGATIVE) /\ ~Flag(cpu, ZERO)
    /\ cpu.a = \h55 /\ cpu.x = \h33 /\ cpu.y = \h77

\* C15: a reset() that directly follows a reset() leaves the whole CPU (a, x,
\* y, flags, counter, memory) as the first one left it.
C15_ResetIdempotent ==
    [][ (act.name = "reset" /\ act'.name = "reset") => cpu' = cpu ]_vars

C15_Witness ==
    /\ act.name = "reset"
    /\ calls = 2
    /\ act.pc = \h8000
    /\ cpu.counter = \h8000
    /\ Cell(cpu.memory, \h8000) = \hef
    /\ cpu.y = \hff
    /\ cpu.a = 0 /\ cpu.x = 0 /\ cpu.flags = POWER_UP

\* C16: after reset(), from any state, a, x and y are 0 and the flags are the
\* power-up pattern: registers and flags are those of a new CPU.
C16_ResetRestoresRegisters ==
    [][ act'.name = "reset"
        => /\ cpu'.a = new.a
           /\ cpu'.x = new.x
           /\ cpu'.y = new.y
           /\ cpu'.flags = new.flags
      ]_vars

\* C17: the memory is addressable over 0 .. 0xFFFF: no read or write that
\* run, the resolver or a handler makes, at any address up to 0xFFFF, fails
\* as out of range, whatever the program.
C17_WholeRangeAddressable ==
    /\ state # "Panicked"
    /\ ~cpu.panicked

\* the flag condition each branch opcode is documented to test
FlagCondition(c, op) ==
    CASE op = \h90 -> ~Flag(c, CARRY)
      [] op = \hb0 -> Flag(c, CARRY)
      [] op = \hf0 -> Flag(c, ZERO)
      [] op = \hd0 -> ~Flag(c, ZERO)
      [] op = \h30 -> Flag(c, NEGATIVE)
      [] op = \h10 -> ~Flag(c, NEGATIVE)
      [] op = \h50 -> ~Flag(c, OVERFLOW)
      [] op = \h70 -> Flag(c, OVERFLOW)

\* a branch whose opcode was at p fell through: the counter is on one of the
\* two bytes after the opcode
FellThrough(p, counter) == counter \in {U16(p + 1), U16(p + 2)}

\* C18: each branch opcode run dispatches is taken exactly when its own flag
\* condition holds (BVS when Overflow is set, BVC when it is clear, ...).
\* Displacements 0xFE and 0xFF, whose target is a byte a branch falls
\* through to, are left out.
C18_BranchConditions ==
    [][ (/\ act'.name = "step"
         /\ state' = "Running"
         /\ act'.op \in BranchOps
         /\ Cell(cpu.memory, U16(cpu.counter + 1)) < \hfe)
        => (~FellThrough(cpu.counter, cpu'.counter)
                <=> FlagCondition(cpu, act'.op)) ]_vars

\* C19 as stated: when branch is called with a true condition and the counter
\* points at a displacement byte d < 0x80 stored at p, the counter afterwards
\* is p + 2 + d; with p = 0x8000 and d = 0x0A it is 0x800C.
C19_BranchAsTested ==
    [][ (/\ act'.name = "branch"
         /\ act'.arg = TRUE
         /\ InBounds(cpu.counter)
         /\ Cell(cpu.memory, cpu.counter) < \h80)
        => cpu'.counter = cpu.counter + 2 + Cell(cpu.memory, cpu.counter)
      ]_vars

\* C19 amended: the counter afterwards is (p + 2 + d) mod 65536; with
\* p = 0x8000 and d = 0x0A it is 0x800C.
C19_BranchAsTestedWrapping ==
    [][ (/\ act'.name = "branch"
         /\ act'.arg = TRUE
         /\ InBounds(cpu.counter)
         /\ Cell(cpu.memory, cpu.counter) < \h80)
        => /\ ~cpu'.panicked
           /\ cpu'.counter =
                 (cpu.counter + 2 + Cell(cpu.memory, cpu.counter)) % 65536
           /\ (cpu.counter = \h8000 /\ Cell(cpu.memory, \h8000) = \h0a)
                  => cpu'.counter = \h800c
      ]_vars

C19_Witness ==
    /\ act.name = "branch"
    /\ act.arg = TRUE
    /\ act.pc = \h8000
    /\ Cell(cpu.memory, \h8000) = \h0a
    /\ cpu.counter = \h800c

\* C20: a branch at p whose condition does not hold still consumes its
\* displacement byte: the counter is left at p + 2, so the next opcode
\* fetched is the byte after the displacement, and a, x, y, the flags and
\* the memory are unchanged.
C20_UntakenBranchConsumes ==
    [][ (/\ act'.name = "step"
         /\ act'.op \in BranchOps
         /\ ~FlagCondition(cpu, act'.op))
        => /\ state' = "Running"
           /\ cpu'.counter = U16(cpu.counter + 2)
           /\ SameButCounter(cpu', cpu)
      ]_vars

\* the address the instruction fetched at the counter of c resolves to: the
\* resolver applied with the counter on the first operand byte
ResolvedAddress(c, mode) ==
    operand_address([c EXCEPT !.counter = U16(c.counter + 1)], mode).val

\* C21: ASL in a memory form (0x06, 0x16, 0x0E, 0x1E), with e the resolved
\* address and m the byte at e, sets Carry to bit 7 of m, writes
\* (2 * m) mod 256 to memory[e], sets Zero/Negative from that result and
\* leaves the accumulator and every other memory cell unchanged.
C21_AslMemory ==
    [][ (/\ act'.name = "step"
         /\ state' = "Running"
         /\ act'.op \in DOMAIN AslOps)
        => LET e == ResolvedAddress(cpu, AslOps[act'.op])
               m == Cell(cpu.memory, e)
               r == (2 * m) % 256
           IN  /\ Flag(cpu', CARRY) = Bit7(m)
               /\ Cell(cpu'.memory, e) = r
               /\ Flag(cpu', ZERO) = (r = 0)
               /\ Flag(cpu', NEGATIVE) = Bit7(r)
               /\ cpu'.a = cpu.a
               /\ \A k \in (DOMAIN cpu.memory \cup DOMAIN cpu'.memory) \ {e} :
                      Cell(cpu'.memory, k) = Cell(cpu.memory, k)
      ]_vars

\* C22: ASL on the accumulator (0x0A), for every accumulator value a: Carry
\* becomes bit 7 of a, the accumulator becomes (2 * a) mod 256 (bit 0 is 0),
\* Zero/Negative are those of the new accumulator, and x, y, Overflow and
\* the memory are unchanged; 0x01 gives 0x02 with Carry clear, 0x80 gives
\* 0x00 with Carry set.
C22_AslAccumulator ==
    [][ (\/ act'.name = "asl_on_accumulator"
         \/ act'.name = "step" /\ act'.op = \h0a /\ state' = "Running")
        => LET a0 == cpu.a
               r  == cpu'.a
           IN  /\ Flag(cpu', CARRY) = Bit7(a0)
               /\ r = (2 * a0) % 256
               /\ r % 2 = 0
               /\ Flag(cpu', ZERO) = (r = 0)
               /\ Flag(cpu', NEGATIVE) = Bit7(r)
               /\ cpu'.x = cpu.x /\ cpu'.y = cpu.y
               /\ Flag(cpu', OVERFLOW) = Flag(cpu, OVERFLOW)
               /\ cpu'.memory = cpu.memory
               /\ a0 = \h01 => (r = \h02 /\ ~Flag(cpu', CARRY))
               /\ a0 = \h80 => (r = \h00 /\ Flag(cpu', CARRY))
      ]_vars

C22_Witness ==
    /\ act.name = "step"
    /\ act.op = \h0a
    /\ cpu.a = 0
    /\ Flag(cpu, CARRY) /\ Flag(cpu, ZERO) /\ ~Flag(cpu, NEGATIVE)
    /\ Flag(cpu, OVERFLOW)

C24_StaFrame ==
    [][ act'.name = "sta"
        => LET e == operand_address(cpu, act'.arg).val
           IN  /\ ~cpu'.panicked
               /\ Cell(cpu'.memory, e) = cpu.a
               /\ \A k \in (DOMAIN cpu.memory \cup DOMAIN cpu'.memory) \ {e} :
                      Cell(cpu'.memory, k) = Cell(cpu.memory, k)
               /\ cpu'.a = cpu.a /\ cpu'.x = cpu.x /\ cpu'.y = cpu.y
               /\ cpu'.flags = cpu.flags
      ]_vars

\* the flag each clear instruction owns, by opcode and by handler
ClearOps ==
    [o \in {\h18, \hd8, \h58, \hb8} |->
        CASE o = \h18 -> CARRY [] o = \hd8 -> DECIMAL
          [] o = \h58 -> NO_INTERRUPT [] o = \hb8 -> OVERFLOW]

ClearHandlers ==
    [h \in {"clc", "cld", "cli", "clv"} |->
        CASE h = "clc" -> CARRY [] h = "cld" -> DECIMAL
          [] h = "cli" -> NO_INTERRUPT [] h = "clv" -> OVERFLOW]

AllFlags ==
    {CARRY, ZERO, NO_INTERRUPT, DECIMAL, BREAK1, BREAK2, OVERFLOW, NEGATIVE}

Spinning ==
    /\ state = "Running"
    /\ \/ /\ Cell(cpu.memory, \h8000) = \h10
          /\ Cell(cpu.memory, \h8001) = \hfd
          /\ cpu.counter = \h8000
          /\ ~Flag(cpu, NEGATIVE)
       \/ /\ Cell(cpu.memory, \h8000) = \h18
          /\ Cell(cpu.memory, \h8001) = \h90
          /\ Cell(cpu.memory, \h8002) = \hfc
          /\ \/ cpu.counter = \h8000
             \/ cpu.counter = \h8001 /\ ~Flag(cpu, CARRY)

\* C26: run is not guaranteed to terminate: from an always-taken branch
\* onto its own opcode, or a backward loop whose flag condition never
\* changes, every step of run leads to another step of the same loop, so
\* run never reaches Halted or an error and nothing bounds the number of
\* executed instructions.
C26_RunsForever ==
    [][ Spinning => (Spinning' /\ act'.name = "step" /\ ~cpu'.panicked) ]_vars

C26_Witness ==
    /\ Spinning
    /\ act.name = "step"
    /\ act.op = \h90
    /\ cpu.counter = \h8000

\* C27: a CPU can be reused across loads: load_and_run(q) on a CPU that has
\* completed load_and_run(p) returns the same result and leaves the same
\* accumulator, x, flags and counter as load_and_run(q) on a freshly
\* constructed CPU.
C27_ReuseAsFresh ==
    (/\ phase2 = 3
     /\ state \in {"Halted", "Failed", "Panicked"}
     /\ state2 \in {"Halted", "Failed", "Panicked"})
    => /\ state = state2
       /\ cpu.a = cpu2.a
       /\ cpu.x = cpu2.x
       /\ cpu.flags = cpu2.flags
       /\ cpu.counter = cpu2.counter

\* C28: on a freshly constructed CPU, load_and_run of a program that
\* executes no branch terminates with Halted or the unknown-opcode error:
\* every executed instruction other than a branch leaves run running,
\* halted or failed on an unknown opcode, with the program counter strictly
\* greater than before it.
C28_LinearProgress ==
    [][ (act'.name = "step" /\ act'.op \notin BranchOps)
        => /\ state' \in {"Running", "Halted", "Failed"}
           /\ cpu'.counter > cpu.counter
      ]_vars

\* the state a constructor leaves: registers zero, memory zero-filled, and
\* exactly bits 2 and 5 of the status set
FreshCPU ==
    /\ cpu.a = 0 /\ cpu.x = 0 /\ cpu.y = 0 /\ cpu.counter = 0
    /\ \A k \in DOMAIN cpu.memory : cpu.memory[k] = 0
    /\ cpu.flags = \b00100100

ReservedFlags ==
    /\ Flag(cpu, BREAK2)
    /\ ~Flag(cpu, BREAK1)
    /\ ~Flag(cpu, DECIMAL)

\* what one operation may do to the flags that are not modelled
ReservedFlagsStep ==
    /\ (Flag(cpu, NO_INTERRUPT) /\ ~Flag(cpu', NO_INTERRUPT))
           => (act'.name = "step" /\ act'.op = \h58)
    /\ act'.name \in {"reset", "load_and_run"} => Flag(cpu', NO_INTERRUPT)
    /\ act'.name = "step"
           => /\ \A f \in {DECIMAL, BREAK1, NO_INTERRUPT} :
                     Flag(cpu', f) => Flag(cpu, f)
              /\ Flag(cpu, BREAK2) => Flag(cpu', BREAK2)

\* C29: a freshly constructed CPU has all registers zero, zero-filled
\* memory and exactly status bits 2 and 5 set; in every state reached from
\* it by load, reset, run and load_and_run Break2 is set and Break1 and
\* Decimal are clear; InterruptDisable is cleared only by an executed CLI
\* and set again by every reset; no instruction sets Decimal, Break1 or
\* InterruptDisable or clears Break2.
C29_ReservedFlags ==
    /\ [](act.name = "new" => FreshCPU)
    /\ []ReservedFlags
    /\ [][ReservedFlagsStep]_vars

C29_Witness ==
    /\ act.name = "step"
    /\ act.op = \h58
    /\ ~Flag(cpu, NO_INTERRUPT)
    /\ ReservedFlags

===========================================================================
